---- MODULE Spec2Model ----
(***************************************************************************)
(* A model of the oozie-to-airflow converter's control-flow core:          *)
(* OozieParser (converter/parser.py) driven over one workflow.xml.          *)
(*                                                                         *)
(* A name is a tuple of text pieces (<<"a", "-", "b">> is "a-b"), so that  *)
(* str.replace("-", "_") is computed piece by piece.  An XML element is a   *)
(* record; `id' is the element's identity (its position in the file), as    *)
(* root.remove() removes by identity.                                       *)
(***************************************************************************)
EXTENDS Integers, Sequences, FiniteSets, TLC

\* ------------------------------------------------------------------ bounds
MaxRoot  == 3     \* children of the root in a generated workflow
MaxDepth == 3     \* nesting of parse_fork_node calls (the interpreter's recursion limit)
MaxCalls == 2     \* calls of each relation / trigger-rule method after parsing
MaxOps   == 3     \* child operations of an fs action, sub-operators handed to chain

\* ------------------------------------------------------------------- names
NoName == <<>>
nA   == <<"A">>
nB   == <<"B">>
nK   == <<"K">>
nX   == <<"X">>
nY   == <<"Y">>
nZ   == <<"Z">>
nF   == <<"F">>
nJ   == <<"J">>
nEnd == <<"end">>
nDash  == <<"k", "-", "1">>
nUnder == <<"k", "_", "1">>

\* str.replace("-", "_")
Normalize(s) == [i \in DOMAIN s |-> IF s[i] = "-" THEN "_" ELSE s[i]]

\* "<keyword> in node.tag": the tag is a tuple of text pieces
TagHas(tag, kw) == \E i \in DOMAIN tag : tag[i] = kw

\* ---------------------------------------------------------------- elements
\* One child of the workflow root.
\*   tag      the element's tag, namespace stripped
\*   name     the name attribute (NoName: no such attribute)
\*   to       start/join: the to attribute; action: the ok child's to (<<>>: no ok
\*            child); decision: the to of each child of the switch, in document
\*            order; fork: the start attribute of each path child
\*   err      action: the error child's to (NoName: no error child)
\*   sub      action: the tag of its first child, the action sub-type
\*   file, archive   action: it has file / archive children
\*   prepare  action: its sub-type element has a prepare child
Elem(tag, name, to, err, sub, file, archive, prepare) ==
    [id |-> 0, tag |-> tag, name |-> name, to |-> to, err |-> err, sub |-> sub,
     file |-> file, archive |-> archive, prepare |-> prepare]

StartEl(to)            == Elem(<<"start">>, NoName, <<to>>, NoName, "", FALSE, FALSE, FALSE)
KillEl(n)              == Elem(<<"kill">>, n, <<>>, NoName, "", FALSE, FALSE, FALSE)
EndEl(n)               == Elem(<<"end">>, n, <<>>, NoName, "", FALSE, FALSE, FALSE)
JoinEl(n, to)          == Elem(<<"join">>, n, <<to>>, NoName, "", FALSE, FALSE, FALSE)
ForkEl(n, paths)       == Elem(<<"fork">>, n, paths, NoName, "", FALSE, FALSE, FALSE)
DecisionEl(n, cases)   == Elem(<<"decision">>, n, cases, NoName, "", FALSE, FALSE, FALSE)
ActionEl(n, sub, ok, e) == Elem(<<"action">>, n, ok, e, sub, FALSE, FALSE, FALSE)
OtherEl(tag, n)        == Elem(tag, n, <<>>, NoName, "", FALSE, FALSE, FALSE)

NoEl == OtherEl(<<>>, NoName)

\* The elements generated workflows are built from.
ElemPool ==
    { StartEl(nA),
      ActionEl(nA, "ssh", <<nB>>, nK),
      ActionEl(nA, "java", <<nA>>, nK),
      ActionEl(nA, "ssh", <<>>, nK),
      ActionEl(nB, "java", <<nA>>, NoName),
      [ActionEl(nB, "map-reduce", <<nA>>, nDash) EXCEPT !.prepare = TRUE],
      [ActionEl(nB, "ssh", <<nK>>, nK) EXCEPT !.file = TRUE],
      [ActionEl(nA, "java", <<nB>>, nK) EXCEPT !.file = TRUE],
      KillEl(nK),
      KillEl(nDash),
      EndEl(nB),
      DecisionEl(nA, <<nB, nK, nA>>),
      ForkEl(nF, <<nA, nB>>),
      ForkEl(nB, <<nB>>),
      JoinEl(nB, nK),
      OtherEl(<<"parameters">>, nA),
      OtherEl(<<"end", "point">>, nA),
      [ActionEl(nA, "ssh", <<nB>>, nK) EXCEPT !.archive = TRUE] }

\* The workflow of the concrete scenario: start->A, A{ok->B, error->K},
\* B{ok->end, error->K}, kill K, end.
ScenarioLinear ==
    << StartEl(nA), ActionEl(nA, "ssh", <<nB>>, nK), ActionEl(nB, "ssh", <<nEnd>>, nK),
       KillEl(nK), EndEl(nEnd) >>

\* A fork with two parallel paths converging on one join.
ScenarioFork ==
    << ForkEl(nF, <<nA, nB>>), ActionEl(nA, "ssh", <<nJ>>, nK),
       ActionEl(nB, "ssh", <<nJ>>, nK), JoinEl(nJ, nEnd), KillEl(nK), EndEl(nEnd) >>

\* A decision with two cases and a default.
ScenarioDecision ==
    << DecisionEl(nA, <<nX, nY, nZ>>), EndEl(nX), EndEl(nY), EndEl(nZ) >>

\* A kill node declared before the actions that fail into it.
ScenarioKillFirst ==
    << KillEl(nK), StartEl(nA), ActionEl(nA, "ssh", <<nEnd>>, nK), EndEl(nEnd) >>

\* The name x-1
Dashed(x) == << x, "-", "1" >>

\* A workflow whose names all contain "-", referred to by a start, a fork's
\* paths, an action's ok and error, a decision's case and default, and a join.
ScenarioDashed ==
    << StartEl(Dashed("f")), ForkEl(Dashed("f"), << Dashed("a"), Dashed("b") >>),
       ActionEl(Dashed("a"), "ssh", << Dashed("j") >>, Dashed("k")),
       DecisionEl(Dashed("b"), << Dashed("j"), Dashed("k") >>),
       JoinEl(Dashed("j"), Dashed("e")), KillEl(Dashed("k")), EndEl(Dashed("e")) >>

\* An element of another tag carries the name a fork's path starts at and comes
\* before the node of that name; a kill node follows the fork.
ScenarioPruned ==
    << OtherEl(<<"parameters">>, nA), ForkEl(nF, <<nA, nB>>), KillEl(nK), EndEl(nB) >>

\* An action whose ok target and error target are one node.
ScenarioSameTarget ==
    << ActionEl(nA, "ssh", <<nK>>, nK), KillEl(nK) >>

Docs ==
    UNION { [1..n -> ElemPool] : n \in 1..MaxRoot }
      \cup { ScenarioLinear, ScenarioFork, ScenarioDecision, ScenarioKillFirst,
             ScenarioDashed, ScenarioPruned, ScenarioSameTarget }

\* ----------------------------------------------------------------- mappers
\* converter/mappers.py: node type / action sub-type -> mapper class
CONTROL_MAP ==
    [k \in {"decision", "end", "kill", "fork", "join", "start"} |->
        CASE k = "decision" -> "DecisionMapper"
          [] k = "kill"     -> "KillMapper"
          [] OTHER          -> "DummyMapper"]

ACTION_MAP ==
    [k \in {"unknown", "ssh", "spark", "pig", "sub-workflow", "shell", "map-reduce"} |->
        CASE k = "unknown"      -> "DummyMapper"
          [] k = "ssh"          -> "SSHMapper"
          [] k = "spark"        -> "SparkMapper"
          [] k = "pig"          -> "PigMapper"
          [] k = "sub-workflow" -> "SubworkflowMapper"
          [] k = "shell"        -> "ShellMapper"
          [] k = "map-reduce"   -> "MapReduceMapper"]

\* The three imports every generated DAG needs (OozieParser.__init__).
BaseDependencies ==
    { "import datetime", "from airflow import models",
      "from airflow.utils.trigger_rule import TriggerRule" }

\* mapper.required_imports(); MapReduceMapper's is in the sources, the other
\* classes' are not: one import line per class stands for theirs.
required_imports(cls) ==
    IF cls = "MapReduceMapper"
    THEN { "from airflow.utils import dates",
           "from airflow.contrib.operators import dataproc_operator" }
    ELSE { "from airflow.operators import dummy_operator" }
           \cup (IF cls = "DummyMapper" THEN {} ELSE { cls })

\* isinstance(mapper, FileMixin) / isinstance(mapper, ArchiveMixin)
is_FileMixin(cls)    == cls = "MapReduceMapper"
is_ArchiveMixin(cls) == cls = "MapReduceMapper"

\* mapper.has_prepare: the strategy declares that it needs a prepare step
has_prepare(cls, el) == cls = "MapReduceMapper" /\ el.prepare

\* --------------------------------------------------------------- ParsedNode
\* ParsedNode(mapper): no downstream, no error node, both flags false.
ParsedNode(cls, name, rule) ==
    [cls |-> cls, name |-> name, trigger_rule |-> rule,
     downstream_names |-> <<>>, error_xml |-> NoName,
     is_ok |-> FALSE, is_error |-> FALSE]

add_downstream_node_name(p, n) ==
    [p EXCEPT !.downstream_names = Append(@, n)]

set_error_node_name(p, n) == [p EXCEPT !.error_xml = n]

\* The unit a relation enters a node by, and the one it leaves it by: for every
\* class of the two registries the node is one unit, named after the node.
first_task_id(p) == p.name
last_task_id(p)  == p.name

\* The activation policy of a (success, error) flag pair.
TriggerPolicy(ok, err) ==
    CASE ok /\ ~err  -> "all_success"
      [] ~ok /\ err  -> "one_failed"
      [] ok /\ err   -> "all_done"
      [] OTHER       -> "dummy"

\* ParsedNode.update_trigger_rule(): tell the mapper the policy of the flags as
\* they are now.
update_trigger_rule(p) ==
    [p EXCEPT !.trigger_rule = TriggerPolicy(p.is_ok, p.is_error)]

EmptyMap == [n \in {} |-> n]

\* ------------------------------------------------------------------ FsMapper
\* FS_OPERATION_MAPPERS: the operation tags, each with the head of the command
\* its prepare_*_command function returns.
FS_OPERATION_MAPPERS ==
    [ mkdir  |-> "fs -mkdir",  delete |-> "fs -rm -r", move   |-> "fs -mv",
      chmod  |-> "fs -chmod",  touchz |-> "fs -touchz", chgrp |-> "fs -chgrp",
      setrep |-> "fs -setrep" ]

\* A child of the <fs> element: its tag, and whether it carries the attributes
\* its prepare_*_command function reads (node.attrib[...] raises KeyError on a
\* missing one).
FsChildren ==
    { [tag |-> t, attrib |-> TRUE] : t \in DOMAIN FS_OPERATION_MAPPERS \cup { "configuration" } }
      \cup { [tag |-> "mkdir", attrib |-> FALSE] }

FsNames == { nA, << "test_id" >> }

SubOperator(task_id, rendered_template) ==
    [task_id |-> task_id, rendered_template |-> rendered_template]

\* str.format of a non-negative integer: its decimal digits
Digit == << "0", "1", "2", "3", "4", "5", "6", "7", "8", "9" >>
RECURSIVE Decimal(_)
Decimal(i) ==
    IF i < 10 THEN << Digit[i + 1] >> ELSE Append(Decimal(i \div 10), Digit[(i % 10) + 1])

\* ops[1::]
FromSecond(ops) == SubSeq(ops, 2, Len(ops))

\* zip(a, b): as long as the shorter of the two
Zip(a, b) ==
    [i \in 1..(IF Len(a) < Len(b) THEN Len(a) ELSE Len(b)) |-> << a[i], b[i] >>]

\* chain pairing every sub-operator with the first one
chain_from_first(ops) ==
    LET z == Zip(ops, FromSecond(ops)) IN
    [i \in DOMAIN z |-> << ops[1].task_id, z[i][2].task_id >>]

\* chain(ops): Relation(from_name=a.task_id, to_name=b.task_id) for a, b in
\* zip(ops, ops[1::])
chain(ops) ==
    LET z == Zip(ops, FromSecond(ops)) IN
    [i \in DOMAIN z |-> << z[i][1].task_id, z[i][2].task_id >>]

\* parse_fs_action counting the operations from one
parse_fs_action_from_one(m, index, node) ==
    IF node.tag \notin DOMAIN FS_OPERATION_MAPPERS \/ ~node.attrib
    THEN [raised |-> TRUE, value |-> << >>]
    ELSE LET task_id == m.name \o << "_fs_" >> \o Decimal(index + 1) IN
         [raised |-> FALSE,
          value |-> SubOperator(task_id,
                        << "fs_op.tpl", task_id, FS_OPERATION_MAPPERS[node.tag] >>)]

\* parse_fs_action(index, node): "Unknown FS operation" on a tag that is no key
\* of FS_OPERATION_MAPPERS, KeyError from the command function on a missing
\* attribute, else the sub-operator "{name}_fs_{index}".
parse_fs_action(m, index, node) ==
    IF node.tag \notin DOMAIN FS_OPERATION_MAPPERS \/ ~node.attrib
    THEN [raised |-> TRUE, value |-> << >>]
    ELSE LET task_id == m.name \o << "_fs_" >> \o Decimal(index) IN
         [raised |-> FALSE,
          value |-> SubOperator(task_id,
                        << "fs_op.tpl", task_id, FS_OPERATION_MAPPERS[node.tag] >>)]

\* FsMapper.get_sub_operators: one dummy sub-operator named as the mapper when
\* the <fs> element has no child, else one sub-operator per child, in order
\* (enumerate counts from zero).
sub_operators(m) ==
    IF Len(m.oozie_node) = 0
    THEN [raised |-> FALSE,
          value |-> << SubOperator(m.name, << "dummy.tpl", m.name, m.trigger_rule >>) >>]
    ELSE LET rs == [i \in DOMAIN m.oozie_node |-> parse_fs_action(m, i - 1, m.oozie_node[i])]
         IN  IF \E i \in DOMAIN rs : rs[i].raised
             THEN [raised |-> TRUE, value |-> << >>]
             ELSE [raised |-> FALSE, value |-> [i \in DOMAIN rs |-> rs[i].value]]

\* The FsMapper objects and the sub-operator sequences of a run.
FsMappers ==
    { [name |-> n, oozie_node |-> c, trigger_rule |-> "dummy"] :
          n \in FsNames, c \in UNION { [1..k -> FsChildren] : k \in 0..MaxOps } }

OpsPool ==
    UNION { [1..k -> { SubOperator(n, << >>) : n \in { nA, nB } }] : k \in 0..MaxOps }

NoMapper == [name |-> NoName, oozie_node |-> << >>, trigger_rule |-> "dummy"]
NoResult == [call |-> "none", arg |-> << >>, raised |-> FALSE, value |-> << >>]

\* -------------------------------------------------------------------- state
VARIABLES
    doc,           \* workflow.xml as read: the children of the root
    root,          \* the live child list of the root element (names normalised)
    idx,           \* how many children parse_workflow's for loop has fetched
    cur,           \* the element of the pending parse_node call, or NoEl
    stack,         \* the parse_fork_node calls in progress, innermost last
    nodes,         \* OozieParser.nodes: name -> ParsedNode
    order,         \* the insertion order of the keys of nodes (an OrderedDict)
    dependencies,  \* OozieParser.dependencies
    relations,     \* OozieParser.relations: a set of <<from, to>>
    pc,            \* where the driver is
    raised,        \* the function that raised, "" while none has
    nRel,          \* completed create_relations / get_relations calls
    nTrig,         \* completed update_trigger_rules calls
    step,          \* the statement OozieConverter.convert is at ("api": the parser's
                   \* methods are called directly, as the tests call them)
    mapper,        \* an FsMapper: name, the children of its <fs> element, trigger rule
    result,        \* the last call on the mapper or of chain: argument and outcome
    input_directory_path,   \* OozieConverter.input_directory_path
    outdir,        \* the output directory: "old" as it was found, "recreated"
    dagfile        \* the DAG file of this run

vars == << doc, root, idx, cur, stack, nodes, order, dependencies, relations,
           pc, raised, nRel, nTrig, step, input_directory_path, outdir, dagfile,
           mapper, result >>

fsVars == << mapper, result >>
convVars == << step, input_directory_path, outdir, dagfile, fsVars >>
outVars == << input_directory_path, outdir, dagfile, fsVars >>

\* No DAG file has been opened.
NoFile == [state |-> "none", header |-> FALSE, operators |-> << >>, relations |-> FALSE]

\* The statements of OozieConverter.convert, in order.
ConvertSteps_triggers_first ==
    << "parse_workflow", "update_trigger_rules", "get_relations", "get_dependencies",
       "get_operators", "_recreate_output_directory", "create_dag_file" >>

ConvertSteps_recreate_first ==
    << "_recreate_output_directory", "parse_workflow", "get_relations", "get_dependencies",
       "get_operators", "update_trigger_rules", "create_dag_file" >>

ConvertSteps ==
    << "parse_workflow", "get_relations", "get_dependencies", "get_operators",
       "update_trigger_rules", "_recreate_output_directory", "create_dag_file" >>

\* The statement after statement s ("returned": convert has returned).
After(s) ==
    LET i == CHOOSE j \in DOMAIN ConvertSteps : ConvertSteps[j] = s
    IN  IF i = Len(ConvertSteps) THEN "returned" ELSE ConvertSteps[i + 1]

\* Method m may be called now: directly, or as the statement convert is at.
Called(m) == step = "api" \/ step = m

\* Method m returns to its caller.
Return(m) == step' = IF step = m THEN After(m) ELSE step

parserVars == << nodes, order, dependencies, relations >>

\* OozieParser.__init__, with the workflow file still to be read
Init ==
    /\ doc \in Docs
    /\ root = <<>>
    /\ idx = 0
    /\ cur = NoEl
    /\ stack = <<>>
    /\ nodes = EmptyMap
    /\ order = <<>>
    /\ dependencies = BaseDependencies
    /\ relations = {}
    /\ pc = "new"
    /\ raised = ""
    /\ nRel = 0
    /\ nTrig = 0
    /\ step = "api"
    /\ input_directory_path = "in"
    /\ outdir = "old"
    /\ dagfile = NoFile
    /\ mapper = NoMapper
    /\ result = NoResult

\* An exception leaves the function named f and nothing catches it.
Raise(f) == pc' = "failed" /\ raised' = f

\* ------------------------------------------------------------ parse_workflow
\* NormalizeEl renaming the name attribute only
NormalizeEl_nameonly(el) == [el EXCEPT !.name = Normalize(@)]

\* The renaming loop over tree.iter(): name, to, error and start attributes.
NormalizeEl(el) ==
    [el EXCEPT !.name = Normalize(@),
               !.to   = [i \in DOMAIN @ |-> Normalize(@[i])],
               !.err  = Normalize(@)]

\* parse_workflow up to its for loop over the root
parse_workflow_begin ==
    /\ pc = "new" /\ Called("parse_workflow")
    /\ root' = [i \in DOMAIN doc |-> [NormalizeEl(doc[i]) EXCEPT !.id = i]]
    /\ pc' = "iter"
    /\ UNCHANGED << doc, idx, cur, stack, parserVars, raised, nRel, nTrig, convVars >>

\* "for node in root": the iterator fetches by position in the live list
parse_workflow_next ==
    /\ pc = "iter"
    /\ IF idx < Len(root)
       THEN /\ cur' = root[idx + 1]
            /\ idx' = idx + 1
            /\ pc' = "call"
            /\ UNCHANGED step
       ELSE /\ pc' = "parsed"
            /\ Return("parse_workflow")
            /\ UNCHANGED << cur, idx >>
    /\ UNCHANGED << doc, root, stack, parserVars, raised, nRel, nTrig, outVars >>

\* ---------------------------------------------------------------- parse_node
\* Dispatch with no branch for a join
Dispatch_nojoin(el) ==
    CASE TagHas(el.tag, "action")   -> "action"
      [] TagHas(el.tag, "start")    -> "start"
      [] TagHas(el.tag, "kill")     -> "kill"
      [] TagHas(el.tag, "end")      -> "end"
      [] TagHas(el.tag, "fork")     -> "fork"
      [] TagHas(el.tag, "decision") -> "decision"
      [] OTHER                      -> "none"

\* The builder parse_node hands the element to ("none": no branch matches).
Dispatch(el) ==
    CASE TagHas(el.tag, "action")   -> "action"
      [] TagHas(el.tag, "start")    -> "start"
      [] TagHas(el.tag, "kill")     -> "kill"
      [] TagHas(el.tag, "end")      -> "end"
      [] TagHas(el.tag, "fork")     -> "fork"
      [] TagHas(el.tag, "join")     -> "join"
      [] TagHas(el.tag, "decision") -> "decision"
      [] OTHER                      -> "none"

\* Where control goes when parse_node returns.
ReturnTo == IF stack = <<>> THEN "iter" ELSE "fork"

\* self.nodes[n] = p: a new key goes last, a known key keeps its place.  A fork
\* call in progress whose node was stored under n no longer holds the stored node.
StoreIn(ns, n, p)  == (n :> p) @@ ns
OrderWith(ord, ns, n) == IF n \in DOMAIN ns THEN ord ELSE Append(ord, n)
Orphan(stk, n) ==
    [i \in DOMAIN stk |-> IF stk[i].name = n THEN [stk[i] EXCEPT !.live = FALSE] ELSE stk[i]]

Store(n, p) ==
    /\ nodes' = StoreIn(nodes, n, p)
    /\ order' = OrderWith(order, nodes, n)

\* What every builder but parse_fork_node leaves alone, returning normally.
Returned ==
    /\ pc' = ReturnTo
    /\ cur' = NoEl
    /\ UNCHANGED << doc, root, idx, relations, raised, nRel, nTrig, convVars >>

\* What a raising builder leaves alone.
Failed(f) ==
    /\ Raise(f)
    /\ UNCHANGED << doc, root, idx, cur, stack, relations, nRel, nTrig, convVars >>

\* parse_kill_node without the update of the dependency set
parse_kill_node_noimports ==
    /\ pc = "call" /\ Dispatch(cur) = "kill"
    /\ Store(cur.name, ParsedNode(CONTROL_MAP["kill"], cur.name, "one_failed"))
    /\ stack' = Orphan(stack, cur.name)
    /\ UNCHANGED dependencies
    /\ Returned

\* parse_kill_node giving the mapper the default trigger rule
parse_kill_node_allsuccess ==
    /\ pc = "call" /\ Dispatch(cur) = "kill"
    /\ Store(cur.name, ParsedNode(CONTROL_MAP["kill"], cur.name, "all_success"))
    /\ stack' = Orphan(stack, cur.name)
    /\ dependencies' = dependencies \cup required_imports(CONTROL_MAP["kill"])
    /\ Returned

parse_kill_node ==
    /\ pc = "call" /\ Dispatch(cur) = "kill"
    /\ Store(cur.name, ParsedNode(CONTROL_MAP["kill"], cur.name, "one_failed"))
    /\ stack' = Orphan(stack, cur.name)
    /\ dependencies' = dependencies \cup required_imports(CONTROL_MAP["kill"])
    /\ Returned

parse_end_node ==
    /\ pc = "call" /\ Dispatch(cur) = "end"
    /\ Store(cur.name, ParsedNode(CONTROL_MAP["end"], cur.name, "all_success"))
    /\ stack' = Orphan(stack, cur.name)
    /\ dependencies' = dependencies \cup required_imports(CONTROL_MAP["end"])
    /\ Returned

parse_join_node ==
    /\ pc = "call" /\ Dispatch(cur) = "join"
    /\ IF cur.to = <<>>
       THEN Failed("parse_join_node") /\ UNCHANGED << nodes, order, dependencies >>
       ELSE /\ Store(cur.name,
                     add_downstream_node_name(
                         ParsedNode(CONTROL_MAP["join"], cur.name, "all_success"), cur.to[1]))
            /\ stack' = Orphan(stack, cur.name)
            /\ dependencies' = dependencies \cup required_imports(CONTROL_MAP["join"])
            /\ Returned

\* with_downstreams passing over the last child of the switch, the default
RECURSIVE with_downstreams_cases(_, _, _)
with_downstreams_cases(p, names, i) ==
    IF i >= Len(names) THEN p
    ELSE with_downstreams_cases(add_downstream_node_name(p, names[i]), names, i + 1)

\* p_node with one downstream name per child of the switch, in document order
RECURSIVE with_downstreams(_, _, _)
with_downstreams(p, names, i) ==
    IF i > Len(names) THEN p
    ELSE with_downstreams(add_downstream_node_name(p, names[i]), names, i + 1)

parse_decision_node ==
    /\ pc = "call" /\ Dispatch(cur) = "decision"
    /\ Store(cur.name,
             with_downstreams(ParsedNode(CONTROL_MAP["decision"], cur.name, "all_success"),
                              cur.to, 1))
    /\ stack' = Orphan(stack, cur.name)
    /\ dependencies' = dependencies \cup required_imports(CONTROL_MAP["decision"])
    /\ Returned

\* str(uuid.uuid4())[:4]
Uuids == { "1a2b", "c3d4" }

parse_start_node ==
    /\ pc = "call" /\ Dispatch(cur) = "start"
    /\ IF cur.to = <<>>
       THEN Failed("parse_start_node") /\ UNCHANGED << nodes, order, dependencies >>
       ELSE \E u \in Uuids :
              LET start_name == << "start_node_", u >> IN
              /\ Store(start_name,
                       add_downstream_node_name(
                           ParsedNode(CONTROL_MAP["start"], start_name, "all_success"),
                           cur.to[1]))
              /\ stack' = Orphan(stack, start_name)
              /\ dependencies' = dependencies \cup required_imports(CONTROL_MAP["start"])
              /\ Returned

\* parse_node on an element no branch matches: nothing is called
parse_node_skip ==
    /\ pc = "call" /\ Dispatch(cur) = "none"
    /\ Returned
    /\ UNCHANGED << stack, nodes, order, dependencies >>

\* --------------------------------------------------------- parse_action_node
\* The mapper class of an action sub-type: "unknown" stands in for a sub-type
\* that is no key of the action map.
action_class(sub) ==
    ACTION_MAP[IF sub \in DOMAIN ACTION_MAP THEN sub ELSE "unknown"]

\* action_outcome merging the imports before the ok and error children are looked at
action_outcome_early(el, ns, ord, deps) ==
    LET cls  == action_class(el.sub)
        d1   == deps \cup required_imports(cls)
        stay(f) == [raised |-> f, nodes |-> ns, order |-> ord, dependencies |-> d1]
    IN  IF el.to = <<>> THEN stay("parse_action_node")
        ELSE IF el.err = NoName THEN stay("parse_action_node")
        ELSE IF el.file /\ ~is_FileMixin(cls) THEN stay("_parse_file_nodes")
        ELSE IF el.archive /\ ~is_ArchiveMixin(cls) THEN stay("_parse_archive_nodes")
        ELSE
          LET p_node == set_error_node_name(
                            add_downstream_node_name(
                                ParsedNode(cls, el.name, "all_success"), el.to[1]),
                            el.err)
          IN  [raised |-> "",
               nodes |-> StoreIn(ns, el.name, p_node),
               order |-> OrderWith(ord, ns, el.name),
               dependencies |-> d1]

\* action_outcome without the fallback: self.action_map[action_name] raises
\* KeyError on a sub-type that is no key
action_outcome_nofallback(el, ns, ord, deps) ==
    LET stay(f) == [raised |-> f, nodes |-> ns, order |-> ord, dependencies |-> deps]
    IN  IF el.sub \notin DOMAIN ACTION_MAP THEN stay("parse_action_node")
        ELSE IF el.to = <<>> THEN stay("parse_action_node")
        ELSE IF el.err = NoName THEN stay("parse_action_node")
        ELSE IF el.file /\ ~is_FileMixin(ACTION_MAP[el.sub]) THEN stay("_parse_file_nodes")
        ELSE IF el.archive /\ ~is_ArchiveMixin(ACTION_MAP[el.sub])
        THEN stay("_parse_archive_nodes")
        ELSE
          LET p_node == set_error_node_name(
                            add_downstream_node_name(
                                ParsedNode(ACTION_MAP[el.sub], el.name, "all_success"),
                                el.to[1]),
                            el.err)
          IN  [raised |-> "",
               nodes |-> StoreIn(ns, el.name, p_node),
               order |-> OrderWith(ord, ns, el.name),
               dependencies |-> deps \cup required_imports(ACTION_MAP[el.sub])]

\* action_outcome passing over the file and archive children of an action
\* whose mapper takes none
action_outcome_ignoreassets(el, ns, ord, deps) ==
    LET cls  == action_class(el.sub)
        stay(f) == [raised |-> f, nodes |-> ns, order |-> ord, dependencies |-> deps]
    IN  IF el.to = <<>> THEN stay("parse_action_node")
        ELSE IF el.err = NoName THEN stay("parse_action_node")
        ELSE
          LET p_node == set_error_node_name(
                            add_downstream_node_name(
                                ParsedNode(cls, el.name, "all_success"), el.to[1]),
                            el.err)
          IN  [raised |-> "",
               nodes |-> StoreIn(ns, el.name, p_node),
               order |-> OrderWith(ord, ns, el.name),
               dependencies |-> deps \cup required_imports(cls)]

\* parse_action_node(el) on a parser holding ns, ord, deps: the function that
\* raised ("" when it returned) and the parser's nodes and dependencies after it.
action_outcome(el, ns, ord, deps) ==
    LET cls  == action_class(el.sub)
        stay(f) == [raised |-> f, nodes |-> ns, order |-> ord, dependencies |-> deps]
    IN  IF el.to = <<>> THEN stay("parse_action_node")
        ELSE IF el.err = NoName THEN stay("parse_action_node")
        ELSE IF el.file /\ ~is_FileMixin(cls) THEN stay("_parse_file_nodes")
        ELSE IF el.archive /\ ~is_ArchiveMixin(cls) THEN stay("_parse_archive_nodes")
        ELSE
          LET p_node == set_error_node_name(
                            add_downstream_node_name(
                                ParsedNode(cls, el.name, "all_success"), el.to[1]),
                            el.err)
              prep == has_prepare(cls, el)
              ns1  == IF prep
                      THEN StoreIn(ns, el.name, ParsedNode("NullMapper", el.name, "all_success"))
                      ELSE ns
              ord1 == IF prep THEN OrderWith(ord, ns, el.name) ELSE ord
          IN  [raised |-> "",
               nodes |-> StoreIn(ns1, el.name, p_node),
               order |-> OrderWith(ord1, ns1, el.name),
               dependencies |-> deps \cup required_imports(cls)]

parse_action_node ==
    /\ pc = "call" /\ Dispatch(cur) = "action"
    /\ LET r == action_outcome(cur, nodes, order, dependencies) IN
       /\ nodes' = r.nodes
       /\ order' = r.order
       /\ dependencies' = r.dependencies
       /\ IF r.raised # ""
          THEN Failed(r.raised)
          ELSE stack' = Orphan(stack, cur.name) /\ Returned

\* ----------------------------------------------------------- parse_fork_node
\* utils.xml_utils.find_node_by_name(root, name): the positions of the children
\* of the root that carry the name
Named(rt, n) == { i \in DOMAIN rt : rt[i].name = n }

First(S) == CHOOSE i \in S : \A j \in S : i <= j

find_node_by_name(rt, n) == rt[First(Named(rt, n))]

\* root.remove(el)
Without(rt, el) ==
    LET i == First({ j \in DOMAIN rt : rt[j].id = el.id })
    IN  SubSeq(rt, 1, i - 1) \o SubSeq(rt, i + 1, Len(rt))

Top == stack[Len(stack)]

\* parse_fork_node up to its loop over the paths
parse_fork_node ==
    /\ pc = "call" /\ Dispatch(cur) = "fork"
    /\ IF Len(stack) >= MaxDepth
       THEN Failed("RecursionError") /\ UNCHANGED << nodes, order, dependencies >>
       ELSE IF \E i \in DOMAIN cur.to : Named(root, cur.to[i]) = {}
       THEN Failed("find_node_by_name") /\ UNCHANGED << nodes, order, dependencies >>
       ELSE /\ Store(cur.name, ParsedNode(CONTROL_MAP["fork"], cur.name, "all_success"))
            /\ dependencies' = dependencies \cup required_imports(CONTROL_MAP["fork"])
            /\ stack' = Append(Orphan(stack, cur.name),
                               [name |-> cur.name, live |-> TRUE, k |-> 0, phase |-> "next",
                                starts |-> cur.to,
                                paths |-> [i \in DOMAIN cur.to |->
                                             find_node_by_name(root, cur.to[i])]])
            /\ pc' = "fork"
            /\ cur' = NoEl
            /\ UNCHANGED << doc, root, idx, relations, raised, nRel, nTrig, convVars >>

\* parse_fork_node_path without the call of parse_node
parse_fork_node_path_nocall ==
    /\ pc = "fork" /\ Top.phase = "next" /\ Top.k < Len(Top.paths)
    /\ LET path == Top.paths[Top.k + 1] IN
       /\ nodes' = IF Top.live
                   THEN [nodes EXCEPT ![Top.name] = add_downstream_node_name(@, path.name)]
                   ELSE nodes
       /\ stack' = [stack EXCEPT ![Len(stack)] = [@ EXCEPT !.k = @ + 1, !.phase = "back"]]
    /\ UNCHANGED << doc, root, idx, cur, pc, order, dependencies, relations, raised,
                    nRel, nTrig, convVars >>

\* parse_fork_node_path without the downstream name
parse_fork_node_path_nodown ==
    /\ pc = "fork" /\ Top.phase = "next" /\ Top.k < Len(Top.paths)
    /\ LET path == Top.paths[Top.k + 1] IN
       /\ stack' = [stack EXCEPT ![Len(stack)] = [@ EXCEPT !.k = @ + 1, !.phase = "back"]]
       /\ cur' = path
       /\ pc' = "call"
    /\ UNCHANGED << doc, root, idx, nodes, order, dependencies, relations, raised,
                    nRel, nTrig, convVars >>

\* the loop body up to the call: the path's name becomes a downstream name of the
\* fork's node and the path's element is handed to parse_node
parse_fork_node_path ==
    /\ pc = "fork" /\ Top.phase = "next" /\ Top.k < Len(Top.paths)
    /\ LET path == Top.paths[Top.k + 1] IN
       /\ nodes' = IF Top.live
                   THEN [nodes EXCEPT ![Top.name] = add_downstream_node_name(@, path.name)]
                   ELSE nodes
       /\ stack' = [stack EXCEPT ![Len(stack)] = [@ EXCEPT !.k = @ + 1, !.phase = "back"]]
       /\ cur' = path
       /\ pc' = "call"
    /\ UNCHANGED << doc, root, idx, order, dependencies, relations, raised, nRel, nTrig,
                    convVars >>

\* the loop body after the call: a path whose name is no key of nodes is removed
\* from the root
parse_fork_node_after ==
    /\ pc = "fork" /\ Top.phase = "back"
    /\ LET path == Top.paths[Top.k] IN
       IF path.name \in DOMAIN nodes
       THEN /\ stack' = [stack EXCEPT ![Len(stack)] = [@ EXCEPT !.phase = "next"]]
            /\ UNCHANGED << root, pc, raised >>
       ELSE IF \A j \in DOMAIN root : root[j].id # path.id
       THEN /\ Raise("root.remove")
            /\ UNCHANGED << root, stack >>
       ELSE /\ root' = Without(root, path)
            /\ stack' = [stack EXCEPT ![Len(stack)] = [@ EXCEPT !.phase = "next"]]
            /\ UNCHANGED << pc, raised >>
    /\ UNCHANGED << doc, idx, cur, parserVars, nRel, nTrig, convVars >>

\* parse_fork_node returns
parse_fork_node_return ==
    /\ pc = "fork" /\ Top.phase = "next" /\ Top.k = Len(Top.paths)
    /\ stack' = SubSeq(stack, 1, Len(stack) - 1)
    /\ pc' = IF Len(stack) = 1 THEN "iter" ELSE "fork"
    /\ UNCHANGED << doc, root, idx, cur, parserVars, raised, nRel, nTrig, convVars >>

\* ---------------------------------------------------------- create_relations
RECURSIVE downstream_relations(_, _, _, _)

\* downstream_relations looking at the first downstream name only
downstream_relations_first(p, ns, j, rels) ==
    IF j > 1 \/ Len(p.downstream_names) = 0 THEN [raised |-> FALSE, relations |-> rels]
    ELSE LET d == p.downstream_names[1] IN
         IF d \notin DOMAIN ns THEN [raised |-> TRUE, relations |-> rels]
         ELSE [raised |-> FALSE,
               relations |-> rels \cup { << last_task_id(p), first_task_id(ns[d]) >> }]

\* downstream_relations toggling membership ("^=" for "|=")
RECURSIVE downstream_relations_toggle(_, _, _, _)
downstream_relations_toggle(p, ns, j, rels) ==
    IF j > Len(p.downstream_names) THEN [raised |-> FALSE, relations |-> rels]
    ELSE LET d == p.downstream_names[j]
             x == { << last_task_id(p), first_task_id(ns[d]) >> } IN
         IF d \notin DOMAIN ns THEN [raised |-> TRUE, relations |-> rels]
         ELSE downstream_relations_toggle(p, ns, j + 1, (rels \ x) \cup (x \ rels))

\* downstream_relations adding each relation from its target to its source
RECURSIVE downstream_relations_reversed(_, _, _, _)
downstream_relations_reversed(p, ns, j, rels) ==
    IF j > Len(p.downstream_names) THEN [raised |-> FALSE, relations |-> rels]
    ELSE LET d == p.downstream_names[j] IN
         IF d \notin DOMAIN ns THEN [raised |-> TRUE, relations |-> rels]
         ELSE downstream_relations_reversed(p, ns, j + 1,
                  rels \cup { << first_task_id(ns[d]), last_task_id(p) >> })

\* downstream_relations passing over a name that is no key of the mapping
RECURSIVE downstream_relations_skip(_, _, _, _)
downstream_relations_skip(p, ns, j, rels) ==
    IF j > Len(p.downstream_names) THEN [raised |-> FALSE, relations |-> rels]
    ELSE LET d == p.downstream_names[j] IN
         IF d \notin DOMAIN ns THEN downstream_relations_skip(p, ns, j + 1, rels)
         ELSE downstream_relations_skip(p, ns, j + 1,
                  rels \cup { << last_task_id(p), first_task_id(ns[d]) >> })

\* The relations of p's downstream names from the j-th on, added to rels one by
\* one; self.nodes[downstream] raises KeyError on a name that is no key.
downstream_relations(p, ns, j, rels) ==
    IF j > Len(p.downstream_names) THEN [raised |-> FALSE, relations |-> rels]
    ELSE LET d == p.downstream_names[j] IN
         IF d \notin DOMAIN ns THEN [raised |-> TRUE, relations |-> rels]
         ELSE downstream_relations(p, ns, j + 1,
                  rels \cup { << last_task_id(p), first_task_id(ns[d]) >> })

\* node_relations without the error relation
node_relations_noerr(p, ns, rels) == downstream_relations(p, ns, 1, rels)

\* One pass of the loop body: the downstream relations, then the error relation
\* ("if error_downstream:" holds of a name that is not empty).
node_relations(p, ns, rels) ==
    LET r == downstream_relations(p, ns, 1, rels) IN
    IF r.raised \/ Len(p.error_xml) = 0 THEN r
    ELSE IF p.error_xml \notin DOMAIN ns THEN [raised |-> TRUE, relations |-> r.relations]
    ELSE [raised |-> FALSE,
          relations |-> r.relations
                         \cup { << last_task_id(p), first_task_id(ns[p.error_xml]) >> }]

\* create_relations from the i-th node of the mapping on
RECURSIVE relations_from(_, _, _, _)
relations_from(ord, ns, i, rels) ==
    IF i > Len(ord) THEN [raised |-> FALSE, relations |-> rels]
    ELSE LET r == node_relations(ns[ord[i]], ns, rels) IN
         IF r.raised THEN r ELSE relations_from(ord, ns, i + 1, r.relations)

postVars == << doc, root, idx, cur, stack, order, dependencies, outVars >>

\* create_relations setting the flags of the nodes it passes
create_relations_flagging ==
    /\ pc = "parsed" /\ nRel < MaxCalls /\ Called("create_relations")
    /\ LET r == relations_from(order, nodes, 1, relations) IN
       /\ relations' = r.relations
       /\ nodes' = [n \in DOMAIN nodes |-> [nodes[n] EXCEPT !.is_ok = TRUE]]
       /\ IF r.raised
          THEN Raise("create_relations") /\ UNCHANGED nRel
          ELSE nRel' = nRel + 1 /\ UNCHANGED << pc, raised >>
    /\ UNCHANGED << postVars, nTrig, step >>

\* create_relations emptying the relation set before it adds
create_relations_clearing ==
    /\ pc = "parsed" /\ nRel < MaxCalls /\ Called("create_relations")
    /\ LET r == relations_from(order, nodes, 1, {}) IN
       /\ relations' = r.relations
       /\ IF r.raised
          THEN Raise("create_relations") /\ UNCHANGED nRel
          ELSE nRel' = nRel + 1 /\ UNCHANGED << pc, raised >>
    /\ UNCHANGED << postVars, nodes, nTrig, step >>

create_relations ==
    /\ pc = "parsed" /\ nRel < MaxCalls /\ Called("create_relations")
    /\ LET r == relations_from(order, nodes, 1, relations) IN
       /\ relations' = r.relations
       /\ IF r.raised
          THEN Raise("create_relations") /\ UNCHANGED nRel
          ELSE nRel' = nRel + 1 /\ UNCHANGED << pc, raised >>
    /\ UNCHANGED << postVars, nodes, nTrig, step >>

\* get_relations: the relations are built only while the set is empty
get_relations ==
    /\ pc = "parsed" /\ nRel < MaxCalls /\ Called("get_relations")
    /\ LET r == IF relations = {}
                THEN relations_from(order, nodes, 1, relations)
                ELSE [raised |-> FALSE, relations |-> relations] IN
       /\ relations' = r.relations
       /\ IF r.raised
          THEN Raise("create_relations") /\ UNCHANGED << nRel, step >>
          ELSE nRel' = nRel + 1 /\ Return("get_relations") /\ UNCHANGED << pc, raised >>
    /\ UNCHANGED << postVars, nodes, nTrig >>

\* ------------------------------------------------------ update_trigger_rules
\* self.nodes[downstream].set_is_ok(True) for p's downstream names from the
\* j-th on
RECURSIVE set_ok_from(_, _, _)
set_ok_from(names, ns, j) ==
    IF j > Len(names) THEN [raised |-> FALSE, nodes |-> ns]
    ELSE IF names[j] \notin DOMAIN ns THEN [raised |-> TRUE, nodes |-> ns]
    ELSE set_ok_from(names, [ns EXCEPT ![names[j]].is_ok = TRUE], j + 1)

\* trigger_node never setting an error flag
trigger_node_noerr(n, ns) ==
    LET r == set_ok_from(ns[n].downstream_names, ns, 1) IN
    IF r.raised THEN r
    ELSE [raised |-> FALSE, nodes |-> [r.nodes EXCEPT ![n] = update_trigger_rule(@)]]

\* trigger_node clearing the visited node's own flags first
trigger_node_reset(n, ns) ==
    LET ns0 == [ns EXCEPT ![n].is_ok = FALSE, ![n].is_error = FALSE]
        r == set_ok_from(ns0[n].downstream_names, ns0, 1)
        e == ns0[n].error_xml
    IN  IF r.raised THEN r
        ELSE IF Len(e) = 0
        THEN [raised |-> FALSE,
              nodes |-> [r.nodes EXCEPT ![n] = update_trigger_rule(@)]]
        ELSE IF e \notin DOMAIN ns0 THEN [raised |-> TRUE, nodes |-> r.nodes]
        ELSE [raised |-> FALSE,
              nodes |-> [[r.nodes EXCEPT ![e].is_error = TRUE]
                            EXCEPT ![n] = update_trigger_rule(@)]]

\* trigger_node without the call of update_trigger_rule
trigger_node_norule(n, ns) ==
    LET r == set_ok_from(ns[n].downstream_names, ns, 1)
        e == ns[n].error_xml
    IN  IF r.raised THEN r
        ELSE IF Len(e) = 0 THEN [raised |-> FALSE, nodes |-> r.nodes]
        ELSE IF e \notin DOMAIN ns THEN [raised |-> TRUE, nodes |-> r.nodes]
        ELSE [raised |-> FALSE, nodes |-> [r.nodes EXCEPT ![e].is_error = TRUE]]

\* One pass of the loop body for the node stored under n: the flags of the nodes
\* it points at, then its own trigger rule.
trigger_node(n, ns) ==
    LET r == set_ok_from(ns[n].downstream_names, ns, 1)
        e == ns[n].error_xml
    IN  IF r.raised THEN r
        ELSE IF Len(e) = 0
        THEN [raised |-> FALSE,
              nodes |-> [r.nodes EXCEPT ![n] = update_trigger_rule(@)]]
        ELSE IF e \notin DOMAIN ns THEN [raised |-> TRUE, nodes |-> r.nodes]
        ELSE [raised |-> FALSE,
              nodes |-> [[r.nodes EXCEPT ![e].is_error = TRUE]
                            EXCEPT ![n] = update_trigger_rule(@)]]

\* update_trigger_rules from the i-th node of the mapping on
RECURSIVE trigger_rules_from(_, _, _)
trigger_rules_from(ord, ns, i) ==
    IF i > Len(ord) THEN [raised |-> FALSE, nodes |-> ns]
    ELSE LET r == trigger_node(ord[i], ns) IN
         IF r.raised THEN r ELSE trigger_rules_from(ord, r.nodes, i + 1)

update_trigger_rules ==
    /\ pc = "parsed" /\ nTrig < MaxCalls /\ Called("update_trigger_rules")
    /\ LET r == trigger_rules_from(order, nodes, 1) IN
       /\ nodes' = r.nodes
       /\ IF r.raised
          THEN Raise("update_trigger_rules") /\ UNCHANGED << nTrig, step >>
          ELSE nTrig' = nTrig + 1 /\ Return("update_trigger_rules")
               /\ UNCHANGED << pc, raised >>
    /\ UNCHANGED << postVars, relations, nRel >>

\* -------------------------------------------------------------- specification
Next ==
    \/ parse_workflow_begin
    \/ parse_workflow_next
    \/ parse_action_node
    \/ parse_start_node
    \/ parse_kill_node
    \/ parse_end_node
    \/ parse_fork_node
    \/ parse_fork_node_path
    \/ parse_fork_node_after
    \/ parse_fork_node_return
    \/ parse_join_node
    \/ parse_decision_node
    \/ parse_node_skip
    \/ create_relations
    \/ get_relations
    \/ update_trigger_rules

Spec == Init /\ [][Next]_vars

\* ------------------------------------------------------ OozieConverter.convert
\* What a statement of convert that only reads the parser leaves alone.
readVars == << doc, root, idx, cur, stack, parserVars, nRel, nTrig >>

\* depends = self.parser.get_dependencies()
get_dependencies ==
    /\ step = "get_dependencies" /\ pc = "parsed"
    /\ Return("get_dependencies")
    /\ UNCHANGED << readVars, pc, raised, outVars >>

\* ops = self.parser.get_operators(): the node mapping, on a parser that has the
\* method; AttributeError on one that has not (OozieParser as it is under
\* converter/parser.py defines get_nodes and no get_operators).
get_operators ==
    /\ step = "get_operators" /\ pc = "parsed"
    /\ \E provided \in BOOLEAN :
          IF provided
          THEN Return("get_operators") /\ UNCHANGED << pc, raised >>
          ELSE Raise("get_operators") /\ UNCHANGED step
    /\ UNCHANGED << readVars, outVars >>

\* shutil.rmtree(output_directory_path); os.makedirs(output_directory_path)
_recreate_output_directory ==
    /\ step = "_recreate_output_directory" /\ pc \in { "new", "parsed" }
    /\ outdir' = "recreated"
    /\ dagfile' = NoFile
    /\ Return("_recreate_output_directory")
    /\ UNCHANGED << readVars, pc, raised, input_directory_path, fsVars >>

\* create_dag_file up to write_operators: open(fn, "w"), write_dependencies, the
\* PARAMS line, write_dag_header
create_dag_file ==
    /\ step = "create_dag_file" /\ pc = "parsed"
    /\ dagfile' = [state |-> "open", header |-> TRUE, operators |-> << >>,
                   relations |-> FALSE]
    /\ step' = "write_operators"
    /\ UNCHANGED << readVars, pc, raised, input_directory_path, fsVars, outdir >>

\* mapper.copy_extra_assets(input_directory_path, output_directory_path) raises:
\* MapReduceMapper._validate_paths on an input directory path that is empty.
\* (output_directory_path is not empty: os.makedirs has made it.)
copy_extra_assets_raises(cls, in_path) == cls = "MapReduceMapper" /\ in_path = ""

\* One pass of the loop of write_operators: the operator's text is written, then
\* its extra assets are copied; an exception leaves the with block, which closes
\* the file as it is.
write_operators ==
    /\ step = "write_operators" /\ pc = "parsed"
    /\ Len(dagfile.operators) < Len(order)
    /\ LET n == order[Len(dagfile.operators) + 1] IN
       IF copy_extra_assets_raises(nodes[n].cls, input_directory_path)
       THEN /\ dagfile' = [dagfile EXCEPT !.operators = Append(@, n), !.state = "closed"]
            /\ Raise("copy_extra_assets")
            /\ UNCHANGED step
       ELSE /\ dagfile' = [dagfile EXCEPT !.operators = Append(@, n)]
            /\ UNCHANGED << pc, raised, step >>
    /\ UNCHANGED << readVars, input_directory_path, fsVars, outdir >>

\* The loop of write_operators has ended: write_relations, the file is closed
\* and create_dag_file and convert return.
write_relations ==
    /\ step = "write_operators" /\ pc = "parsed"
    /\ Len(dagfile.operators) = Len(order)
    /\ dagfile' = [dagfile EXCEPT !.relations = TRUE, !.state = "closed"]
    /\ step' = After("create_dag_file")
    /\ UNCHANGED << readVars, pc, raised, input_directory_path, fsVars, outdir >>

\* OozieConverter.__init__ done, convert about to run
ConvertInit ==
    /\ doc \in Docs
    /\ root = <<>>
    /\ idx = 0
    /\ cur = NoEl
    /\ stack = <<>>
    /\ nodes = EmptyMap
    /\ order = <<>>
    /\ dependencies = BaseDependencies
    /\ relations = {}
    /\ pc = "new"
    /\ raised = ""
    /\ nRel = 0
    /\ nTrig = 0
    /\ step = ConvertSteps[1]
    /\ input_directory_path \in { "", "in" }
    /\ outdir = "old"
    /\ dagfile = NoFile
    /\ mapper = NoMapper
    /\ result = NoResult

ConvertNext ==
    \/ parse_workflow_begin
    \/ parse_workflow_next
    \/ parse_action_node
    \/ parse_start_node
    \/ parse_kill_node
    \/ parse_end_node
    \/ parse_fork_node
    \/ parse_fork_node_path
    \/ parse_fork_node_after
    \/ parse_fork_node_return
    \/ parse_join_node
    \/ parse_decision_node
    \/ parse_node_skip
    \/ get_relations
    \/ get_dependencies
    \/ get_operators
    \/ update_trigger_rules
    \/ _recreate_output_directory
    \/ create_dag_file
    \/ write_operators
    \/ write_relations

ConvertSpec == ConvertInit /\ [][ConvertNext]_vars

\* ------------------------------------------------------------------- claims
\* Every downstream name and every error name of ns is a key of ns.
AllResolved(ns) ==
    \A n \in DOMAIN ns :
        /\ \A j \in DOMAIN ns[n].downstream_names : ns[n].downstream_names[j] \in DOMAIN ns
        /\ Len(ns[n].error_xml) > 0 => ns[n].error_xml \in DOMAIN ns

HasDownstream(ns, m, n) ==
    \E j \in DOMAIN ns[m].downstream_names : ns[m].downstream_names[j] = n

RelationsBuilt == pc = "parsed" /\ nRel >= 1
TriggersUpdated == pc = "parsed" /\ nTrig >= 1

\* C1: edge completeness.  Once create_relations has returned on a graph in
\* which every referenced name exists, for every node N the relation set holds
\* (N.last_task_id, nodes[d].first_task_id) for each downstream name d of N and,
\* when N has an error name e, (N.last_task_id, nodes[e].first_task_id).
C1_EdgeCompleteness ==
    (RelationsBuilt /\ AllResolved(nodes)) =>
        \A n \in DOMAIN nodes :
            /\ \A j \in DOMAIN nodes[n].downstream_names :
                   << last_task_id(nodes[n]),
                      first_task_id(nodes[nodes[n].downstream_names[j]]) >> \in relations
            /\ Len(nodes[n].error_xml) > 0 =>
                   << last_task_id(nodes[n]),
                      first_task_id(nodes[nodes[n].error_xml]) >> \in relations

\* relations were built for a graph with a node of several downstream names and
\* a node with an error name
C1_Witness ==
    /\ RelationsBuilt /\ AllResolved(nodes)
    /\ \E n \in DOMAIN nodes : Len(nodes[n].downstream_names) >= 2
    /\ \E n \in DOMAIN nodes : Len(nodes[n].error_xml) > 0

\* C2 as stated: after update_trigger_rules, N.is_ok holds exactly when some
\* OTHER node's downstream names contain N's name, and N.is_error exactly when
\* some node's error name is N's name.
C2_FlagsFromOtherNodes ==
    TriggersUpdated =>
        \A n \in DOMAIN nodes :
            /\ nodes[n].is_ok <=> \E m \in DOMAIN nodes \ {n} : HasDownstream(nodes, m, n)
            /\ nodes[n].is_error <=> \E m \in DOMAIN nodes : nodes[m].error_xml = n

\* C2 amended: after update_trigger_rules, N.is_ok holds exactly when some node's
\* downstream names (N's own included) contain N's name, and N.is_error exactly
\* when some node's error name is N's name; a node no edge points at has both
\* flags false.
C2_FlagsFromEdges ==
    TriggersUpdated =>
        \A n \in DOMAIN nodes :
            /\ nodes[n].is_ok <=> \E m \in DOMAIN nodes : HasDownstream(nodes, m, n)
            /\ nodes[n].is_error <=> \E m \in DOMAIN nodes : nodes[m].error_xml = n

\* the rules were updated on a graph with a node reached on success only, one
\* reached on error only and one that nothing points at
C2_Witness ==
    /\ TriggersUpdated
    /\ \E n \in DOMAIN nodes : nodes[n].is_ok /\ ~nodes[n].is_error
    /\ \E n \in DOMAIN nodes : ~nodes[n].is_ok /\ nodes[n].is_error
    /\ \E n \in DOMAIN nodes : ~nodes[n].is_ok /\ ~nodes[n].is_error

\* C3: when update_trigger_rules has returned, every node's mapper holds
\* the policy the trigger table gives the node's final flags, also a node that
\* comes before a node pointing at it.
C3_PolicyOfFinalFlags ==
    TriggersUpdated =>
        \A n \in DOMAIN nodes :
            nodes[n].trigger_rule = TriggerPolicy(nodes[n].is_ok, nodes[n].is_error)

\* The keys of a mapping in every insertion order.
Orders(ord) ==
    { q \in [DOMAIN ord -> { ord[i] : i \in DOMAIN ord }] :
        \A i, j \in DOMAIN ord : i # j => q[i] # q[j] }

Unflagged(ns) == [n \in DOMAIN ns |-> [ns[n] EXCEPT !.is_ok = FALSE, !.is_error = FALSE]]

Flags(ns) == [n \in DOMAIN ns |-> << ns[n].is_ok, ns[n].is_error >>]

\* C4: trigger classification determinism.  The flags update_trigger_rules left
\* on the nodes are the flags it gives the same nodes, with the same downstream
\* and error names, held in any other insertion order.
C4_FlagsOrderIndependent ==
    TriggersUpdated =>
        \A q \in Orders(order) :
            LET r == trigger_rules_from(q, Unflagged(nodes), 1) IN
            ~r.raised /\ Flags(r.nodes) = Flags(nodes)

\* the rules were updated on three or more nodes, one of which points at an
\* earlier node of the mapping and one at a later one
C4_Witness ==
    /\ TriggersUpdated
    /\ Len(order) >= 3
    /\ \E i, j \in DOMAIN order : i < j /\ HasDownstream(nodes, order[j], order[i])
    /\ \E i, j \in DOMAIN order : i < j /\ nodes[order[i]].error_xml = order[j]

\* C5: idempotent relation rebuild.  A call of create_relations or get_relations
\* that follows an earlier one on the same graph leaves the relation set as the
\* earlier call left it.
C5_RebuildIdempotent ==
    [][(pc = "parsed" /\ nRel >= 1 /\ nRel' = nRel + 1) => relations' = relations]_vars

\* the builder has returned twice on a graph with several relations
C5_Witness ==
    pc = "parsed" /\ nRel = 2 /\ Cardinality(relations) >= 3

FourRelations == { << nA, nB >>, << nA, nK >>, << nB, nEnd >>, << nB, nK >> }

\* C6 as stated: for the workflow start->A, A{ok->B, error->K}, B{ok->end,
\* error->K}, kill K, end, the relation set after parsing and relation building
\* is exactly {(A,B), (A,K), (B,end), (B,K)}.
C6_ExactlyFourRelations ==
    (doc = ScenarioLinear /\ RelationsBuilt) => relations = FourRelations

\* C6 amended: for that workflow the relation set is exactly the four relations
\* and the relation from the start node, stored under its generated name
\* start_node_<4 characters>, to A.
C6_FourRelationsAndStart ==
    (doc = ScenarioLinear /\ RelationsBuilt) =>
        \E u \in Uuids :
            /\ << "start_node_", u >> \in DOMAIN nodes
            /\ relations = FourRelations \cup { << << "start_node_", u >>, nA >> }

C6_Witness == doc = ScenarioLinear /\ RelationsBuilt

\* C7 as stated: whenever parse_workflow returns normally, every referenced name
\* is a key of the node mapping (a dangling reference makes parse_workflow fail).
C7_ParsedMeansResolved == pc = "parsed" => AllResolved(nodes)

\* C7 amended: a dangling reference is fatal to relation building, not to
\* parsing: whenever create_relations (or get_relations) has returned normally,
\* every downstream name and every error name is a key of the node mapping, and
\* create_relations raises only on a graph with a dangling reference.
C7_BuiltMeansResolved ==
    /\ RelationsBuilt => AllResolved(nodes)
    /\ raised = "create_relations" => ~AllResolved(nodes)

\* parse_workflow returned with a dangling reference and create_relations raised
C7_Witness ==
    raised = "create_relations" /\ ~AllResolved(nodes) /\ idx = Len(root) /\ Len(root) >= 2

\* The element of the pending parse_node call goes to a builder that stores a
\* node under the element's name, and another element of the workflow has
\* declared that name and is in the node mapping.
DuplicateCall ==
    /\ pc = "call"
    /\ Dispatch(cur) \in { "action", "kill", "end", "fork", "join", "decision" }
    /\ cur.name \in DOMAIN nodes
    /\ \E i \in DOMAIN root : root[i].id # cur.id /\ root[i].name = cur.name

\* C8: a builder asked to add a node whose name is already a key of the node
\* mapping fails, and the entry under that name stays as it was.
C8_DuplicateNameRejected ==
    [][DuplicateCall => (raised' # "" /\ nodes' = nodes)]_vars

\* C9: parse_action_node on an action without an ok child or without an error
\* child raises, and the node mapping and the dependency set are what they were
\* before the call.
C9_MissingEdgeRaises ==
    [][(pc = "call" /\ Dispatch(cur) = "action" /\ (cur.to = <<>> \/ cur.err = NoName)) =>
         /\ raised' = "parse_action_node"
         /\ nodes' = nodes /\ order' = order
         /\ dependencies' = dependencies]_vars

\* parse_action_node raised on an action with an unmapped import, called on a
\* parser that already held a node
C9_Witness ==
    /\ raised = "parse_action_node"
    /\ cur.to = <<>> \/ cur.err = NoName
    /\ nodes # EmptyMap
    /\ ~(required_imports(action_class(cur.sub)) \subseteq dependencies)

UnknownAction ==
    /\ pc = "call" /\ Dispatch(cur) = "action"
    /\ cur.sub \notin DOMAIN ACTION_MAP
    /\ cur.to # <<>> /\ cur.err # NoName

UnknownParsed ==
    /\ raised' = ""
    /\ cur.name \in DOMAIN nodes'
    /\ nodes'[cur.name].cls = ACTION_MAP["unknown"]
    /\ nodes'[cur.name].downstream_names = << cur.to[1] >>
    /\ nodes'[cur.name].error_xml = cur.err
    /\ required_imports(ACTION_MAP["unknown"]) \subseteq dependencies'

\* C10 as stated: an action (with its ok and error children) whose sub-type is
\* no key of the action map is parsed with the "unknown" mapper: parsing does
\* not fail, the node is stored under its name with the ok target as its
\* downstream name and the error target as its error name, and the mapper's
\* required imports are in the dependency set.
C10_UnknownAlwaysParsed == [][UnknownAction => UnknownParsed]_vars

\* C10 amended: the same, for an action that has no file and no archive child;
\* with one, parsing fails, as the "unknown" mapper takes neither.
C10_UnknownParsedWithoutAssets ==
    [][(UnknownAction /\ ~cur.file /\ ~cur.archive) => UnknownParsed]_vars

\* an action of an unknown sub-type is in the node mapping
C10_Witness ==
    \E n \in DOMAIN nodes :
        /\ nodes[n].cls = ACTION_MAP["unknown"]
        /\ Len(nodes[n].error_xml) > 0
        /\ \E i \in DOMAIN root :
              root[i].name = n /\ TagHas(root[i].tag, "action")
                /\ root[i].sub \notin DOMAIN ACTION_MAP

\* ------------------------------------------------------------------ parse_node
TypeTags == { "start", "action", "kill", "end", "fork", "join", "decision" }

\* The class parse_node's builder for type tag k gives the node of element el.
BuilderClass(k, el) == IF k = "action" THEN action_class(el.sub) ELSE CONTROL_MAP[k]

\* The step is a parse_node call that stored a node of class c under name n, or
\* raised.
BuiltAs(c, n) ==
    \/ raised' # ""
    \/ n \in DOMAIN nodes' /\ nodes'[n].cls = c

\* parse_node(cur) with tag k went to the builder of k, and to no other.
OneBuilder(k) ==
    /\ Dispatch(cur) = k
    /\ IF k = "start"
       THEN \E u \in Uuids : BuiltAs(BuilderClass(k, cur), << "start_node_", u >>)
       ELSE BuiltAs(BuilderClass(k, cur), cur.name)
    /\ IF k = "fork" THEN Len(stack') = Len(stack) + 1 \/ raised' # ""
                     ELSE stack' = Orphan(stack, cur.name) \/ raised' # ""

NothingBuilt ==
    /\ nodes' = nodes /\ order' = order
    /\ dependencies' = dependencies
    /\ relations' = relations
    /\ raised' = ""

HasDash(s) == \E i \in DOMAIN s : s[i] = "-"

\* The element goes to a builder that stores a node under the element's name.
Builds(el) == Dispatch(el) \in { "action", "kill", "end", "fork", "join", "decision" }

\* The node under the normalised name of doc[j] was built from doc[j]: no other
\* element of the workflow declares that name.
StoredFrom(j) ==
    /\ Builds(doc[j])
    /\ Normalize(doc[j].name) \in DOMAIN nodes
    /\ \A i \in DOMAIN doc \ {j} :
           Builds(doc[i]) => Normalize(doc[i].name) # Normalize(doc[j].name)

NoFork == \A i \in DOMAIN doc : Dispatch(doc[i]) # "fork"

\* C12: name normalisation consistency.  After parse_workflow no key of the node
\* mapping and no downstream or error name contains "-"; a declared name with a
\* "-" is a key as its normalised identifier, and every reference to it (ok,
\* error, case, default, join to, fork path start, start to) is that same
\* identifier in the referring node.
C12_NamesNormalisedAlike ==
    pc = "parsed" =>
        /\ \A n \in DOMAIN nodes :
               /\ ~HasDash(n) /\ ~HasDash(nodes[n].error_xml)
               /\ \A k \in DOMAIN nodes[n].downstream_names :
                      ~HasDash(nodes[n].downstream_names[k])
        /\ \A i \in DOMAIN doc :
               (Builds(doc[i]) /\ HasDash(doc[i].name) /\ NoFork) =>
                   Normalize(doc[i].name) \in DOMAIN nodes
        /\ \A i, j \in DOMAIN doc :
               (Builds(doc[i]) /\ HasDash(doc[i].name) /\ StoredFrom(j)) =>
                   LET p == nodes[Normalize(doc[j].name)] IN
                   /\ Len(p.downstream_names) = Len(doc[j].to)
                   /\ \A k \in DOMAIN doc[j].to :
                          doc[j].to[k] = doc[i].name =>
                              p.downstream_names[k] = Normalize(doc[i].name)
                   /\ doc[j].err = doc[i].name => p.error_xml = Normalize(doc[i].name)
        /\ \A j \in DOMAIN doc :
               (Dispatch(doc[j]) = "start" /\ HasDash(doc[j].to[1])) =>
                   \E u \in Uuids :
                       /\ << "start_node_", u >> \in DOMAIN nodes
                       /\ \A v \in Uuids : << "start_node_", v >> \in DOMAIN nodes =>
                            \E h \in DOMAIN doc :
                                /\ Dispatch(doc[h]) = "start"
                                /\ nodes[<< "start_node_", v >>].downstream_names
                                       = << Normalize(doc[h].to[1]) >>

\* the workflow whose names all contain "-" has been parsed
C12_Witness ==
    /\ pc = "parsed" /\ doc = ScenarioDashed
    /\ \A j \in DOMAIN doc : Builds(doc[j]) => StoredFrom(j)
    /\ Normalize(Dashed("k")) \in DOMAIN nodes

\* ---------------------------------------------------------------- dependencies
\* C13: the dependency set only grows.  No step removes an entry, the three base
\* imports are always in it, and the required imports of the mapper of every
\* node a builder has added are in it.
C13_DependenciesOnlyGrow ==
    /\ [](/\ BaseDependencies \subseteq dependencies
          /\ \A n \in DOMAIN nodes : required_imports(nodes[n].cls) \subseteq dependencies)
    /\ [][dependencies \subseteq dependencies']_vars

\* builders of three mapper classes have added nodes, a kill node among them
C13_Witness ==
    /\ Cardinality({ nodes[n].cls : n \in DOMAIN nodes }) >= 3
    /\ \E n \in DOMAIN nodes : nodes[n].cls = CONTROL_MAP["kill"]
    /\ Cardinality(dependencies) > Cardinality(BaseDependencies) + 2

\* -------------------------------------------------------------- parse_fork_node
\* The step is the innermost parse_fork_node handing its next path to parse_node.
ForkHandsPath ==
    /\ pc = "fork" /\ Len(stack') = Len(stack)
    /\ stack'[Len(stack)].k = Top.k + 1

\* The step is the innermost parse_fork_node returning.
ForkReturns == pc = "fork" /\ Len(stack') = Len(stack) - 1

\* Every path has been handed to parse_node, each the first child of the root
\* that carries the name of the path's start attribute.
ForkParsedPaths ==
    /\ Top.k = Len(Top.paths) /\ Len(Top.paths) = Len(Top.starts)
    /\ \A i \in DOMAIN Top.paths : Top.paths[i].name = Top.starts[i]

ForkCallsInOrder ==
    ForkHandsPath => (pc' = "call" /\ cur' = Top.paths[Top.k + 1])

ForkRelations ==
    { << nF, nA >>, << nF, nB >>, << nA, nJ >>, << nB, nJ >> }

From(n) == { r \in relations : r[1] = n }
Into(n) == { r \in relations : r[2] = n }

\* C15: fork expansion.  For the fork F of two paths A and B that both go on to
\* the join J, the relation set after parsing and relation building holds one
\* relation from F to each of A and B and one from each of A and B to J: the
\* relations out of F are exactly (F,A), (F,B) and those into J exactly (A,J),
\* (B,J).
C15_ForkExpansion ==
    (doc = ScenarioFork /\ RelationsBuilt) =>
        /\ ForkRelations \subseteq relations
        /\ From(nF) = { << nF, nA >>, << nF, nB >> }
        /\ Into(nJ) = { << nA, nJ >>, << nB, nJ >> }

\* the relations of the fork workflow have been built
C15_Witness ==
    /\ doc = ScenarioFork /\ RelationsBuilt
    /\ nodes[nF].downstream_names = << nA, nB >>
    /\ Cardinality(relations) >= 4

\* C16: a decision node gets one downstream name per child of its switch (every
\* case and the default), in document order, and relation building yields the
\* relation from the decision node to each branch's target: for two cases ->X,
\* ->Y and a default ->Z the three relations (D,X), (D,Y), (D,Z).
C16_DecisionBranches ==
    /\ [][(pc = "call" /\ Dispatch(cur) = "decision") =>
            /\ raised' = ""
            /\ nodes'[cur.name].downstream_names = cur.to]_vars
    /\ [](RelationsBuilt =>
            \A n \in DOMAIN nodes :
                nodes[n].cls = CONTROL_MAP["decision"] =>
                    From(n) = { << n, nodes[n].downstream_names[k] >> :
                                  k \in DOMAIN nodes[n].downstream_names })
    /\ []((doc = ScenarioDecision /\ RelationsBuilt) =>
            From(nA) = { << nA, nX >>, << nA, nY >>, << nA, nZ >> })

\* the relations of the decision workflow have been built: three leave the
\* decision node
C16_Witness ==
    /\ doc = ScenarioDecision /\ RelationsBuilt
    /\ nodes[nA].downstream_names = << nX, nY, nZ >>
    /\ Cardinality(From(nA)) = 3

\* ------------------------------------------------------------ prepare and assets
\* The pending call is parse_action_node on an action whose mapper declares that
\* it needs a prepare step.
PrepareAction ==
    /\ pc = "call" /\ Dispatch(cur) = "action"
    /\ has_prepare(action_class(cur.sub), cur)

\* C18: parsing an action whose mapper needs a prepare step leaves two entries
\* in the node mapping, one under the action's name and one under another name,
\* its prepared variant, holding the prepare node.
C18_PrepareAddsTwoEntries ==
    [][(PrepareAction /\ raised' = "") =>
         /\ cur.name \in DOMAIN nodes'
         /\ \E k \in DOMAIN nodes' \ { cur.name } :
                nodes'[k].cls = "NullMapper"]_vars

\* The pending call is parse_action_node on an action with a file (archive)
\* child whose mapper is no FileMixin (ArchiveMixin).
AssetWithoutCapability ==
    /\ pc = "call" /\ Dispatch(cur) = "action"
    /\ \/ cur.file /\ ~is_FileMixin(action_class(cur.sub))
       \/ cur.archive /\ ~is_ArchiveMixin(action_class(cur.sub))

\* C20: an action with a file (or archive) reference whose mapper lacks the file
\* (or archive) capability makes parsing fail and adds no node: the call raises,
\* in _parse_file_nodes or _parse_archive_nodes when the action has its ok and
\* error children, and the node mapping is what it was.
C20_AssetWithoutCapabilityRaises ==
    [][AssetWithoutCapability =>
         /\ raised' # ""
         /\ (cur.to # <<>> /\ cur.err # NoName) =>
                raised' = (IF cur.file /\ ~is_FileMixin(action_class(cur.sub))
                           THEN "_parse_file_nodes" ELSE "_parse_archive_nodes")
         /\ nodes' = nodes /\ order' = order]_vars

\* parsing failed on an archive reference, on a parser that already held a node
C20_Witness ==
    /\ raised = "_parse_archive_nodes"
    /\ cur.archive /\ ~cur.file
    /\ nodes # EmptyMap /\ cur.name \notin DOMAIN nodes

\* ---------------------------------------------------------------------- convert
\* No output artifact has been produced: the output directory is as it was found
\* and no DAG file has been opened.
NoOutput == outdir = "old" /\ dagfile = NoFile

\* The statements of convert that come before its first output statement.
BeforeOutput ==
    { "parse_workflow", "get_relations", "get_dependencies", "get_operators",
      "update_trigger_rules" }

ParsingOver == pc = "parsed" /\ stack = << >> /\ idx >= Len(root)

UniqueNames ==
    \A i, j \in DOMAIN doc :
        (i # j /\ Builds(doc[i]) /\ Builds(doc[j])) =>
            Normalize(doc[i].name) # Normalize(doc[j].name)

\* C23: every source node is parsed exactly once.  The root-level iteration of
\* parse_workflow never hands parse_node an element that is in the node mapping
\* already (in a workflow of distinct names: that parse_fork_node has parsed as
\* the start of a path).
C23_ParsedOnce ==
    [][(pc = "iter" /\ pc' = "call" /\ UniqueNames /\ Builds(cur')) =>
          cur'.name \notin DOMAIN nodes]_vars

NodeTags == { "action", "kill", "end", "fork", "join", "decision" }

\* C30: when parse_workflow has returned without raising, every child of the
\* root whose tag is action, kill, end, fork, join or decision has an entry in
\* the node mapping under its normalised name.
C30_NoNodeSkipped ==
    pc = "parsed" =>
        \A i \in DOMAIN doc :
            (\E k \in NodeTags : doc[i].tag = << k >>) =>
                Normalize(doc[i].name) \in DOMAIN nodes

\* ------------------------------------------------------- FsMapper and chain
\* FsMapper.__init__ on an <fs> element; no parser is involved.
FsInit ==
    /\ doc = << >>
    /\ root = <<>>
    /\ idx = 0
    /\ cur = NoEl
    /\ stack = <<>>
    /\ nodes = EmptyMap
    /\ order = <<>>
    /\ dependencies = BaseDependencies
    /\ relations = {}
    /\ pc = "new"
    /\ raised = ""
    /\ nRel = 0
    /\ nTrig = 0
    /\ step = "api"
    /\ input_directory_path = "in"
    /\ outdir = "old"
    /\ dagfile = NoFile
    /\ mapper \in FsMappers
    /\ result = NoResult

fsFrame ==
    << doc, root, idx, cur, stack, parserVars, pc, raised, nRel, nTrig, step,
       input_directory_path, outdir, dagfile, mapper >>

\* One call is made on each mapper (the methods are pure, a second call returns
\* what the first did).  What a call on the mapper leaves in result: an exception of
\* get_sub_operators passes through its caller.
Raised(call)          == [call |-> call, arg |-> << >>, raised |-> TRUE, value |-> << >>]
Returns(call, value)  == [call |-> call, arg |-> << >>, raised |-> FALSE, value |-> value]

get_sub_operators ==
    /\ result = NoResult
    /\ LET r == sub_operators(mapper) IN
       result' = IF r.raised THEN Raised("get_sub_operators")
                 ELSE Returns("get_sub_operators", r.value)
    /\ UNCHANGED fsFrame

\* self.get_sub_operators()[0].task_id
get_first_task_id ==
    /\ result = NoResult
    /\ LET r == sub_operators(mapper) IN
       result' = IF r.raised THEN Raised("get_first_task_id")
                 ELSE Returns("get_first_task_id", r.value[1].task_id)
    /\ UNCHANGED fsFrame

\* self.get_sub_operators()[-1].task_id
get_last_task_id ==
    /\ result = NoResult
    /\ LET r == sub_operators(mapper) IN
       result' = IF r.raised THEN Raised("get_last_task_id")
                 ELSE Returns("get_last_task_id", r.value[Len(r.value)].task_id)
    /\ UNCHANGED fsFrame

\* convert_to_text: the sub-operators and chain(sub_ops) handed to fs.tpl
convert_to_text ==
    /\ result = NoResult
    /\ LET r == sub_operators(mapper) IN
       result' = IF r.raised THEN Raised("convert_to_text")
                 ELSE Returns("convert_to_text",
                              [sub_ops |-> r.value, relations |-> chain(r.value)])
    /\ UNCHANGED fsFrame

\* chain(ops) called on a sequence of sub-operators, as ChainTestCase calls it
chain_call ==
    /\ result = NoResult
    /\ \E ops \in OpsPool :
          result' = [call |-> "chain", arg |-> ops, raised |-> FALSE, value |-> chain(ops)]
    /\ UNCHANGED fsFrame

FsNext ==
    \/ get_sub_operators
    \/ get_first_task_id
    \/ get_last_task_id
    \/ convert_to_text
    \/ chain_call

FsSpec == FsInit /\ [][FsNext]_vars

\* C21: chain(ops) returns, in order, exactly the relations
\* (ops[i].task_id, ops[i+1].task_id) of the consecutive pairs: len(ops) - 1
\* relations for two or more sub-operators, none for an empty or one-element
\* sequence.  convert_to_text hands chain the mapper's sub-operators.
ChainOf(ops, rels) ==
    /\ Len(rels) = (IF Len(ops) >= 2 THEN Len(ops) - 1 ELSE 0)
    /\ \A i \in 1..Len(rels) : rels[i] = << ops[i].task_id, ops[i + 1].task_id >>

C21_ChainConsecutivePairs ==
    /\ result.call = "chain" => ChainOf(result.arg, result.value)
    /\ (result.call = "convert_to_text" /\ ~result.raised) =>
          ChainOf(result.value.sub_ops, result.value.relations)

\* chain was called on three sub-operators whose first two ids differ
C21_Witness ==
    /\ result.call = "chain" /\ Len(result.arg) = 3 /\ Len(result.value) = 2
    /\ result.arg[1].task_id # result.arg[2].task_id

\* every child of the <fs> element is an operation with its attributes
AllOperations(m) ==
    \A i \in DOMAIN m.oozie_node :
        m.oozie_node[i].tag \in DOMAIN FS_OPERATION_MAPPERS /\ m.oozie_node[i].attrib

\* C22: for an FsMapper named NAME with n >= 1 child operations the first unit
\* id is NAME_fs_0 and the last is NAME_fs_(n-1), the ids of the first and the
\* last sub-operator; with no child both are NAME.
C22_FsBoundaryIds ==
    AllOperations(mapper) =>
        LET n == Len(mapper.oozie_node) IN
        /\ result.call \in { "get_sub_operators", "get_first_task_id", "get_last_task_id" }
              => ~result.raised
        /\ result.call = "get_sub_operators" => Len(result.value) = (IF n = 0 THEN 1 ELSE n)
        /\ result.call = "get_first_task_id" =>
              /\ result.value = IF n = 0 THEN mapper.name
                                ELSE mapper.name \o << "_fs_", "0" >>
              /\ result.value = sub_operators(mapper).value[1].task_id
        /\ result.call = "get_last_task_id" =>
              /\ result.value = IF n = 0 THEN mapper.name
                                ELSE mapper.name \o << "_fs_" >> \o Decimal(n - 1)
              /\ result.value = sub_operators(mapper).value[IF n = 0 THEN 1 ELSE n].task_id

\* get_last_task_id was called on a mapper with three operations, and returned
\* an id that is not the first one
C22_Witness ==
    /\ AllOperations(mapper) /\ Len(mapper.oozie_node) = 3
    /\ result.call = "get_last_task_id" /\ ~result.raised
    /\ result.value = mapper.name \o << "_fs_", "2" >>

\* ------------------------------------------------- builders called directly
\* The elements a client hands to parse_node itself, as the tests hand an
\* element to one builder.
DirectEls == { KillEl(nK), EndEl(nB), JoinEl(nB, nK) }

\* parse_node(root, node) called on a parser whose relations were built once:
\* the builder it dispatches to stores its node and returns to the caller (the
\* exhausted iteration of the root leads back to "parsed").
parse_node_direct ==
    /\ pc = "parsed" /\ step = "api" /\ nRel = 1 /\ nTrig = 0
    /\ \E el \in DirectEls : cur' = el
    /\ pc' = "call"
    /\ UNCHANGED << doc, root, idx, stack, parserVars, raised, nRel, nTrig, convVars >>

RebuildNext ==
    \/ parse_workflow_begin
    \/ parse_workflow_next
    \/ parse_action_node
    \/ parse_start_node
    \/ parse_kill_node
    \/ parse_end_node
    \/ parse_fork_node
    \/ parse_fork_node_path
    \/ parse_fork_node_after
    \/ parse_fork_node_return
    \/ parse_join_node
    \/ parse_decision_node
    \/ parse_node_skip
    \/ parse_node_direct
    \/ create_relations
    \/ get_relations
    \/ update_trigger_rules

RebuildSpec == Init /\ [][RebuildNext]_vars

\* The relations create_relations derives from the graph as it is.
CurrentRelations == relations_from(order, nodes, 1, {}).relations

C25_ErrorNotDownstream ==
    \A n \in DOMAIN nodes :
        \A k \in DOMAIN nodes[n].downstream_names :
            nodes[n].downstream_names[k] # nodes[n].error_xml

\* C26: relation building only reads the graph.  A step of create_relations (or
\* of get_relations), returning or raising, leaves the node mapping, its order
\* and the dependency set as they were.
C26_RelationsReadOnly ==
    [][(relations' # relations \/ nRel' # nRel \/ raised' = "create_relations") =>
          (nodes' = nodes /\ order' = order /\ dependencies' = dependencies)]_vars

\* relations were built on a graph of several nodes whose flags are still unset
C26_Witness ==
    /\ pc = "parsed" /\ nRel >= 1 /\ nTrig = 0
    /\ Cardinality(relations) >= 2 /\ Len(order) >= 3
    /\ \A n \in DOMAIN nodes : ~nodes[n].is_ok /\ ~nodes[n].is_error

IsKill(n) == nodes[n].cls = CONTROL_MAP["kill"]

\* C27 as stated: a kill node has no downstream name and no error name, and
\* after update_trigger_rules every kill node has its success flag false and
\* the run-on-upstream-failure policy.
C27_KillOnlyOnFailure ==
    \A n \in DOMAIN nodes :
        IsKill(n) =>
            /\ nodes[n].downstream_names = << >> /\ nodes[n].error_xml = NoName
            /\ TriggersUpdated =>
                  (~nodes[n].is_ok /\ nodes[n].trigger_rule = "one_failed")

\* C27 amended: a kill node has no downstream name and no error name and is
\* built with the run-on-upstream-failure policy, which it keeps until
\* update_trigger_rules visits it.  After update_trigger_rules
\* its success flag is true exactly when some node's downstream name is the kill
\* node's name (a join, a decision branch or an ok transition may go to it), and
\* its policy is the one update_trigger_rule gave it from the flags it had when
\* it was visited.
C27_KillFlagsFromEdges ==
    \A n \in DOMAIN nodes :
        IsKill(n) =>
            /\ nodes[n].downstream_names = << >> /\ nodes[n].error_xml = NoName
            /\ (nTrig = 0 /\ raised # "update_trigger_rules") =>
                  (nodes[n].trigger_rule = "one_failed" /\ ~nodes[n].is_ok)
            /\ TriggersUpdated =>
                  /\ nodes[n].is_ok <=> \E m \in DOMAIN nodes : HasDownstream(nodes, m, n)
                  /\ nodes[n].trigger_rule \in
                        { TriggerPolicy(FALSE, FALSE),
                          TriggerPolicy(nodes[n].is_ok, nodes[n].is_error),
                          TriggerPolicy(FALSE, nodes[n].is_error),
                          TriggerPolicy(nodes[n].is_ok, FALSE) }

\* the rules were updated on a graph whose kill node is a success target and an
\* error target
C27_Witness ==
    /\ TriggersUpdated
    /\ \E n \in DOMAIN nodes : IsKill(n) /\ nodes[n].is_ok /\ nodes[n].is_error

\* C28: relation soundness.  After create_relations on a freshly parsed graph,
\* every relation (f, t) comes from an edge: some node N has last_task_id f and
\* a downstream name or an error name d with nodes[d].first_task_id = t.
C28_RelationsFromEdges ==
    RelationsBuilt =>
        \A r \in relations :
            \E n \in DOMAIN nodes :
                /\ last_task_id(nodes[n]) = r[1]
                /\ \/ \E k \in DOMAIN nodes[n].downstream_names :
                         LET d == nodes[n].downstream_names[k] IN
                         d \in DOMAIN nodes /\ first_task_id(nodes[d]) = r[2]
                   \/ /\ Len(nodes[n].error_xml) > 0
                      /\ nodes[n].error_xml \in DOMAIN nodes
                      /\ first_task_id(nodes[nodes[n].error_xml]) = r[2]

\* relations were built once on a graph with an edge that has no reverse edge
C28_Witness ==
    /\ RelationsBuilt /\ nRel = 1
    /\ \E r \in relations : r[1] # r[2] /\ << r[2], r[1] >> \notin relations
    /\ \E n \in DOMAIN nodes : Len(nodes[n].error_xml) > 0

Rules(ns) == [n \in DOMAIN ns |-> ns[n].trigger_rule]

====
